---------------------------- MODULE Spec2Model ----------------------------
(***************************************************************************)
(* Client core of the voxel game: the WebSocketManager (connection         *)
(* lifecycle, reconnection, send/receive), the World block store, the      *)
(* PlayerController's block interactions and frame tick, and the Game      *)
(* component's effect, cleanup and frame loop.                             *)
(***************************************************************************)
EXTENDS Integers, Sequences, FiniteSets, TLC

(***************************************************************************)
(* Bounds of the model.                                                    *)
(***************************************************************************)
\* transports (connect() calls, manual or automatic) created in one run
MaxConns == 3
\* the same, in the runs where no transport ever opens
MaxFailConns == 7
\* connect() calls made by the caller itself
MaxConnectCalls == 2
\* sendBlockUpdate / sendPlayerUpdate calls
MaxSends == 2
\* transports of the runs that exercise the send methods
MaxSendConns == 2
\* transports of the runs where connections open, are lost and are retried
MaxUnstableConns == 7

(***************************************************************************)
(* Program constants.                                                      *)
(***************************************************************************)
maxReconnectAttempts == 5
reconnectDelay == 1000
connectTimeout == 5000

VARIABLES
  ws,                 \* WebSocketManager.ws: 0 is null, else the transport's index in conns
  reconnectAttempts,  \* WebSocketManager.reconnectAttempts
  conns,              \* one record per connect() call: its WebSocket and its promise
  retryTimers,        \* pending setTimeout callbacks of attemptReconnect (their delays)
  isConnected,        \* Game's isConnected, set through onConnectionChange
  wire,               \* what ws.send() has transmitted, oldest first
  manualCalls,        \* history: connect() calls made by the caller
  autoCalls,          \* history: connect() calls made by retry timers
  retryLog,           \* history: the delay of every retry scheduled, in order
  notices,            \* history: what onConnectionChange told the caller, and whether
                      \*          the manager had given up retrying when it did
  closures,           \* history: closures since a transport last opened
  sendSeq,            \* history: send calls made so far
  dropped,            \* history: the send calls that transmitted nothing
  handed,             \* history: the message of the last send call
  blocks,             \* World.blocks: key -> block type of the mesh stored under it
  scene,              \* the meshes of the THREE.Scene, counted per cell
  blocksPlaced,       \* PlayerController.stats.blocksPlaced
  blocksDestroyed,    \* PlayerController.stats.blocksDestroyed
  clicks,             \* history: placeBlock / destroyBlock calls of the controller
  received,           \* history: messages delivered to onmessage
  joined,             \* history: players announced by the server and not gone since
  edited,             \* history: the cells the controller's clicks have changed
  cameraColumn,       \* the column <<x, z>> the camera is over
  cameraY,            \* camera.position.y, in millionths
  velocityY,          \* PlayerController.velocity.y, in thousandths
  canJump,            \* PlayerController.canJump
  gameStats,          \* Game's gameStats
  component,          \* the Game component: "no" before it is mounted, "yes", "gone"
  isLoading,          \* Game's isLoading
  selectedBlockType,  \* Game's selectedBlockType
  effect,             \* "live" when the effect's body has run and its cleanup has not
  thenOf,             \* the connect() call whose then/catch of the effect has not run
                      \*   yet (its index in conns), 0 when there is none
  animationId,        \* animationIdRef.current: "undefined", or the id of a frame
                      \*   request that is "pending" or is "stale" (run or cancelled)
  loops,              \* the requestAnimationFrame(animate) callbacks that are pending
  frames,             \* history: the frame ticks run so far
  cleaned,            \* history: the cleanup has run and the body has not run since
  last                \* history: the last world operation and what it saw

connVars == <<ws, reconnectAttempts, conns, retryTimers, isConnected>>
histVars == <<manualCalls, autoCalls, retryLog, notices, closures>>
sendVars == <<wire, sendSeq, dropped, handed>>
playerVars == <<cameraColumn, cameraY, velocityY, canJump, gameStats>>
gameVars ==
  <<component, isLoading, selectedBlockType, effect, thenOf, animationId, loops, frames,
    cleaned>>
worldVars ==
  <<blocks, scene, blocksPlaced, blocksDestroyed, clicks, received, joined, edited, last,
    playerVars, gameVars>>
vars == <<connVars, histVars, sendVars, worldVars>>

ConnIds == 1..Len(conns)

\* WebSocket.readyState === WebSocket.OPEN of the manager's current transport
wsIsOpen == ws # 0 /\ conns[ws].st = "open"

\* resolve() / reject() of a promise: only a pending promise settles
settle(outcome, how) == IF outcome = "pending" THEN how ELSE outcome

\* attemptReconnect with the budget test off by one (<= for <)
attemptReconnect_offByOne(att, timers, log) ==
  IF att <= maxReconnectAttempts
    THEN [att    |-> att + 1,
          timers |-> Append(timers, reconnectDelay * (att + 1)),
          log    |-> Append(log, reconnectDelay * (att + 1))]
    ELSE [att |-> att, timers |-> timers, log |-> log]

(***************************************************************************)
(* attemptReconnect: schedule one more retry while the budget lasts.       *)
(***************************************************************************)
attemptReconnect(att, timers, log) ==
  IF att < maxReconnectAttempts
    THEN [att    |-> att + 1,
          timers |-> Append(timers, reconnectDelay * (att + 1)),
          log    |-> Append(log, reconnectDelay * (att + 1))]
    ELSE [att |-> att, timers |-> timers, log |-> log]

(***************************************************************************)
(* connect(): a new WebSocket replaces this.ws; its handlers and the       *)
(* 5-second timer are bound to this call's promise.                        *)
(***************************************************************************)
connect ==
  /\ conns' = Append(conns, [st |-> "connecting", opened |-> FALSE,
                             outcome |-> "pending", timer |-> "armed"])
  /\ ws' = Len(conns) + 1

\* the caller calls connect()
ConnectCall(limit) ==
  /\ Len(conns) < limit
  /\ manualCalls < MaxConnectCalls
  /\ connect
  /\ manualCalls' = manualCalls + 1
  /\ UNCHANGED <<reconnectAttempts, retryTimers, isConnected, autoCalls, retryLog,
                 notices, closures, sendVars, worldVars>>

\* onConnectionChange(connected), which is Game's setIsConnected: the state of
\* a component that was unmounted is no longer set
onConnectionChange(connected, gaveUp) ==
  /\ isConnected' = IF component = "gone" THEN isConnected ELSE connected
  /\ notices' = notices \cup {[connected |-> connected, terminal |-> gaveUp]}

\* ws.onopen that leaves reconnectAttempts as it is
TransportOpen_noReset(i) ==
  /\ conns[i].st = "connecting"
  /\ reconnectAttempts' = reconnectAttempts
  /\ onConnectionChange(TRUE, FALSE)
  /\ closures' = 0
  /\ conns' = [conns EXCEPT ![i].st = "open", ![i].opened = TRUE,
                            ![i].outcome = settle(@, "resolved")]
  /\ UNCHANGED <<ws, retryTimers, manualCalls, autoCalls, retryLog, sendVars, worldVars>>

\* ws.onopen of transport i
TransportOpen(i) ==
  /\ conns[i].st = "connecting"
  /\ reconnectAttempts' = 0
  /\ onConnectionChange(TRUE, FALSE)
  /\ closures' = 0
  /\ conns' = [conns EXCEPT ![i].st = "open", ![i].opened = TRUE,
                            ![i].outcome = settle(@, "resolved")]
  /\ UNCHANGED <<ws, retryTimers, manualCalls, autoCalls, retryLog, sendVars, worldVars>>

\* ws.onclose of transport i (after ws.onerror when the transport failed)
onclose(i, outcome) ==
  LET r == attemptReconnect(reconnectAttempts, retryTimers, retryLog) IN
  /\ onConnectionChange(FALSE, r.timers = retryTimers)
  /\ reconnectAttempts' = r.att
  /\ retryTimers' = r.timers
  /\ retryLog' = r.log
  /\ closures' = closures + 1
  /\ conns' = [conns EXCEPT ![i].st = "closed", ![i].outcome = outcome]
  /\ UNCHANGED <<ws, manualCalls, autoCalls, sendVars, worldVars>>

\* transport i fails before it opened: onerror (reject), then onclose
TransportFail(i) ==
  /\ conns[i].st \in {"connecting", "closing"}
  /\ ~conns[i].opened
  /\ onclose(i, settle(conns[i].outcome, "rejected"))

\* transport i, once open, is closed (by the server, the network or close())
TransportClose(i) ==
  /\ conns[i].st \in {"open", "closing"}
  /\ conns[i].opened
  /\ onclose(i, conns[i].outcome)

\* the 5-second timer of call i: rejects unless this.ws is open
ConnectTimeout(i) ==
  /\ conns[i].timer = "armed"
  /\ conns' = [conns EXCEPT ![i].timer = "fired",
                            ![i].outcome = IF wsIsOpen THEN @ ELSE settle(@, "rejected")]
  /\ UNCHANGED <<ws, reconnectAttempts, retryTimers, isConnected, histVars, sendVars, worldVars>>

\* a retry timer fires: this.connect().catch(...)
RetryFire(k, limit) ==
  /\ k \in 1..Len(retryTimers)
  /\ Len(conns) < limit
  /\ retryTimers' = [j \in 1..(Len(retryTimers) - 1) |->
                       IF j < k THEN retryTimers[j] ELSE retryTimers[j + 1]]
  /\ connect
  /\ autoCalls' = autoCalls + 1
  /\ UNCHANGED <<reconnectAttempts, isConnected, manualCalls, retryLog, notices, closures,
                 sendVars, worldVars>>

\* disconnect(): close the current transport and forget it
disconnect ==
  /\ IF ws # 0
       THEN /\ conns' = [conns EXCEPT ![ws].st =
                           IF @ \in {"connecting", "open"} THEN "closing" ELSE @]
            /\ ws' = 0
       ELSE UNCHANGED <<conns, ws>>
  /\ UNCHANGED <<reconnectAttempts, retryTimers, isConnected, histVars, sendVars, worldVars>>

(***************************************************************************)
(* sendBlockUpdate / sendPlayerUpdate: JSON.stringify of the message is    *)
(* handed to ws.send only when the current transport is open.              *)
(***************************************************************************)
blockUpdateMessage(position, blockType) ==
  [type |-> "block_update", position |-> position, blockType |-> blockType]

playerUpdateMessage(position, rotation) ==
  [type |-> "player_update", position |-> position, rotation |-> rotation]

\* transmit without the readyState test
transmit_unguarded(w, msg, seq) == Append(w, [msg |-> msg, seq |-> seq, conn |-> ws])

\* the wire after one send call numbered seq
transmit(w, msg, seq) ==
  IF wsIsOpen THEN Append(w, [msg |-> msg, seq |-> seq, conn |-> ws]) ELSE w

send(msg) ==
  /\ sendSeq' = sendSeq + 1
  /\ wire' = transmit(wire, msg, sendSeq + 1)
  /\ dropped' = IF wsIsOpen THEN dropped ELSE dropped \cup {sendSeq + 1}
  /\ handed' = msg

sendBlockUpdate(position, blockType) == send(blockUpdateMessage(position, blockType))

sendPlayerUpdate(position, rotation) == send(playerUpdateMessage(position, rotation))

SentPositions == {<<42, 0, 0>>}

SendBlockUpdate ==
  /\ sendSeq < MaxSends
  /\ \E p \in SentPositions, t \in {0, 1} : sendBlockUpdate(p, t)
  /\ UNCHANGED <<connVars, histVars, worldVars>>

SendPlayerUpdate ==
  /\ sendSeq < MaxSends
  /\ \E p \in SentPositions : sendPlayerUpdate(p, <<0, 0, 0>>)
  /\ UNCHANGED <<connVars, histVars, worldVars>>

(***************************************************************************)
(* World: the block store.  A Position is a triple of coordinates counted  *)
(* in half units (3 is 1.5), so that Math.floor has something to do; a key *)
(* is the triple of integers that positionToKey prints as "x,y,z".         *)
(***************************************************************************)
\* generateInitialTerrain fills the columns -size..size only
terrainSize == 20
\* getGroundHeight starts its scan here
groundScanTop == 20
\* calls of the store's own methods in the runs that exercise the store alone
MaxStoreCalls == 3
\* messages delivered to onmessage and placeBlock / destroyBlock calls of the
\* controller, together
MaxWorldOps == 3

\* the window of the model: two columns just beyond the terrain, which the
\* constructor leaves empty, and in each the levels around the scan's start
Xs == {terrainSize + 1, terrainSize + 2}
Ys == {0, groundScanTop - 1, groundScanTop, groundScanTop + 1}
Cells == {<<x, y, 0>> : x \in Xs, y \in Ys}

\* the Position with the integer coordinates of a cell
toPosition(cell) == <<2 * cell[1], 2 * cell[2], 2 * cell[3]>>

\* Math.floor of each coordinate
positionToKey(position) == <<position[1] \div 2, position[2] \div 2, position[3] \div 2>>

world == [blocks |-> blocks, scene |-> scene]

mapSet(m, key, value) == [k \in DOMAIN m \cup {key} |-> IF k = key THEN value ELSE m[k]]

mapDelete(m, key) == [k \in DOMAIN m \ {key} |-> m[k]]

meshCount(sc, key) == IF key \in DOMAIN sc THEN sc[key] ELSE 0

\* scene.add(mesh) / scene.remove(mesh) of a mesh of the cell
sceneAdd(sc, key) == mapSet(sc, key, meshCount(sc, key) + 1)

sceneRemove(sc, key) ==
  IF meshCount(sc, key) <= 1 THEN mapDelete(sc, key) ELSE mapSet(sc, key, sc[key] - 1)

\* removeBlock that takes the mesh off the scene and leaves the map entry
removeBlock_keepsEntry(w, position) ==
  LET key == positionToKey(position) IN
  IF key \in DOMAIN w.blocks
    THEN [blocks |-> w.blocks, scene |-> sceneRemove(w.scene, key), ret |-> TRUE]
    ELSE [blocks |-> w.blocks, scene |-> w.scene, ret |-> FALSE]

removeBlock(w, position) ==
  LET key == positionToKey(position) IN
  IF key \in DOMAIN w.blocks
    THEN [blocks |-> mapDelete(w.blocks, key),
          scene  |-> sceneRemove(w.scene, key),
          ret    |-> TRUE]
    ELSE [blocks |-> w.blocks, scene |-> w.scene, ret |-> FALSE]

\* placeBlock without the test for air
placeBlock_noAirTest(w, position, blockType) ==
  LET key == positionToKey(position)
      r   == removeBlock(w, position)
  IN [blocks |-> mapSet(r.blocks, key, blockType),
      scene  |-> sceneAdd(r.scene, key),
      ret    |-> TRUE]

\* placeBlock that leaves an occupied cell as it is
placeBlock_keepsExisting(w, position, blockType) ==
  IF blockType = 0 THEN removeBlock(w, position)
  ELSE LET key == positionToKey(position) IN
       IF key \in DOMAIN w.blocks
         THEN [blocks |-> w.blocks, scene |-> w.scene, ret |-> TRUE]
         ELSE [blocks |-> mapSet(w.blocks, key, blockType),
               scene  |-> sceneAdd(w.scene, key),
               ret    |-> TRUE]

placeBlock(w, position, blockType) ==
  IF blockType = 0 THEN removeBlock(w, position)
  ELSE LET key == positionToKey(position)
           r   == removeBlock(w, position)
       IN [blocks |-> mapSet(r.blocks, key, blockType),
           scene  |-> sceneAdd(r.scene, key),
           ret    |-> TRUE]

getBlockAt(w, position) == IF positionToKey(position) \in DOMAIN w.blocks THEN 1 ELSE 0

RECURSIVE scanDown(_, _, _, _)
scanDown(w, x, y, z) ==
  IF y < 0 THEN 0
  ELSE IF <<x, y, z>> \in DOMAIN w.blocks THEN y
  ELSE scanDown(w, x, y - 1, z)

getGroundHeight(w, x, z) == scanDown(w, x, groundScanTop, z)

RECURSIVE updateFromState(_, _)
updateFromState(w, blockList) ==
  IF blockList = <<>> THEN w
  ELSE LET r == placeBlock(w, Head(blockList).position, Head(blockList).type)
       IN updateFromState([blocks |-> r.blocks, scene |-> r.scene], Tail(blockList))

\* the block list is modelled as a set: the claims do not depend on its order
getWorldState(w) ==
  [blocks  |-> {[position |-> toPosition(key), type |-> 1] : key \in DOMAIN w.blocks},
   players |-> {}]

(***************************************************************************)
(* raycast.  A ray has an origin (a Position), an axis (1, 2 or 3) and a   *)
(* sign: the model casts axis-parallel rays.  Raycaster.intersectObjects   *)
(* reports, nearest first, the front faces of the unit cubes the ray meets *)
(* (edges included, faces parallel to the ray and back faces excluded).    *)
(***************************************************************************)
faceNormal(ray) == [j \in 1..3 |-> IF j = ray.axis THEN 0 - ray.sign ELSE 0]

frontFace(key, ray) == IF ray.sign = 1 THEN 2 * key[ray.axis] ELSE 2 * key[ray.axis] + 2

intersectObjects(w, ray) ==
  {[distance |-> ray.sign * (frontFace(key, ray) - ray.origin[ray.axis]),
    point    |-> [ray.origin EXCEPT ![ray.axis] = frontFace(key, ray)],
    normal   |-> faceNormal(ray)] :
     key \in {k \in DOMAIN w.blocks :
                /\ ray.sign * (frontFace(k, ray) - ray.origin[ray.axis]) >= 0
                /\ \A j \in 1..3 \ {ray.axis} :
                     2 * k[j] <= ray.origin[j] /\ ray.origin[j] <= 2 * k[j] + 2}}

\* a null that is the hit of a cell of the window, by its top face
null_asHit ==
  [found |-> TRUE, position |-> <<terrainSize + 1, groundScanTop - 1, 0>>, normal |-> <<0, 1, 0>>]

\* raycast's null, shaped like a hit
null == [found |-> FALSE, position |-> <<0, 0, 0>>, normal |-> <<0, 0, 0>>]

raycast(w, ray) ==
  LET intersects == intersectObjects(w, ray) IN
  IF intersects = {} THEN null
  ELSE LET intersect == CHOOSE h \in intersects : \A g \in intersects : h.distance <= g.distance
           \* point - 0.5 * normal, then Math.floor
           position  == [j \in 1..3 |-> (intersect.point[j] - intersect.normal[j]) \div 2]
       IN [found |-> TRUE, position |-> position, normal |-> intersect.normal]

(***************************************************************************)
(* PlayerController.placeBlock / destroyBlock.  The ray comes from the     *)
(* camera; here it is an input of the call.                                *)
(***************************************************************************)
Rays ==
  {[origin |-> <<hx, hy, 1>>, axis |-> 2, sign |-> s] :
     hx \in {2 * x + 1 : x \in Xs} \cup {2 * (terrainSize + 2)},
     hy \in {2 * groundScanTop - 1, 2 * groundScanTop},
     s \in {-1, 1}}

PlaceTypes == {1}

\* a target that is the cell hit itself
placePositionOf_hitCell(hit) == toPosition(hit.position)

\* placePosition: the cell next to the one hit, on the side of the face hit
placePositionOf(hit) == toPosition([j \in 1..3 |-> hit.position[j] + hit.normal[j]])

PlayerController_placeBlock(ray, blockType) ==
  LET hit == raycast(world, ray) IN
  /\ clicks' = clicks + 1
  /\ last' = [op |-> "placeBlock", hit |-> hit, blockType |-> blockType,
              missed |-> intersectObjects(world, ray) = {}, open |-> wsIsOpen, placedBefore |-> blocksPlaced, wireBefore |-> Len(wire)]
  /\ IF hit.found
       THEN LET placePosition == placePositionOf(hit)
                r == placeBlock(world, placePosition, blockType)
            IN /\ blocks' = r.blocks
               /\ scene' = r.scene
               /\ IF r.ret
                    THEN /\ blocksPlaced' = blocksPlaced + 1
                         /\ edited' = edited \cup {positionToKey(placePosition)}
                         /\ sendBlockUpdate(placePosition, blockType)
                    ELSE UNCHANGED <<blocksPlaced, edited, sendVars>>
       ELSE UNCHANGED <<blocks, scene, blocksPlaced, edited, sendVars>>
  /\ UNCHANGED <<connVars, histVars, blocksDestroyed, received, joined, playerVars, gameVars>>

PlayerController_destroyBlock(ray) ==
  LET hit == raycast(world, ray) IN
  /\ clicks' = clicks + 1
  /\ last' = [op |-> "destroyBlock", hit |-> hit,
              missed |-> intersectObjects(world, ray) = {},
              hitOccupied |-> hit.found /\ hit.position \in DOMAIN blocks,
              open |-> wsIsOpen, destroyedBefore |-> blocksDestroyed,
              wireBefore |-> Len(wire)]
  /\ IF hit.found
       THEN LET r == removeBlock(world, toPosition(hit.position))
            IN /\ blocks' = r.blocks
               /\ scene' = r.scene
               /\ IF r.ret
                    THEN /\ blocksDestroyed' = blocksDestroyed + 1
                         /\ edited' = edited \cup {hit.position}
                         /\ sendBlockUpdate(toPosition(hit.position), 0)
                    ELSE UNCHANGED <<blocksDestroyed, edited, sendVars>>
       ELSE UNCHANGED <<blocks, scene, blocksDestroyed, edited, sendVars>>
  /\ UNCHANGED <<connVars, histVars, blocksPlaced, received, joined, playerVars, gameVars>>

ClickPlace ==
  /\ clicks + received < MaxWorldOps
  /\ \E ray \in Rays, t \in PlaceTypes : PlayerController_placeBlock(ray, t)

ClickDestroy ==
  /\ clicks + received < MaxWorldOps
  /\ \E ray \in Rays : PlayerController_destroyBlock(ray)

(***************************************************************************)
(* PlayerController.update, the frame tick.  Heights are counted in        *)
(* millionths and speeds in thousandths, which makes the arithmetic of the *)
(* tick exact (delta is 0.016); the rounding of the doubles is left out.   *)
(* No movement key is held during the ticks of the model: the horizontal   *)
(* velocity stays 0.  Walking is one step of its own, taken on the ground, *)
(* where the ticks leave the vertical state as it is.                      *)
(***************************************************************************)
\* const playerHeight = 1.8, in millionths
playerHeight == 1800000
\* getGroundHeight's "simplified ground level"
simplifiedGround == 10
\* 9.8 * 10.0 * delta, in thousandths
gravityStep == 1568
\* velocity.y += 10, in thousandths
jumpImpulse == 10000
\* delta = 0.016, in thousandths
frameDelta == 16
\* camera.position.set(0, 20, 0)
cameraStart == 20

micro == 1000 * 1000

spawnColumn == <<0, 0>>

\* the column of the window the player walks to
windowColumn == <<terrainSize + 1, 0>>

PlayerController_getGroundHeight(x, z) == simplifiedGround

\* { ...prev, ...stats }
mergeStats(prev, stats) ==
  [k \in DOMAIN prev \cup DOMAIN stats |-> IF k \in DOMAIN stats THEN stats[k] ELSE prev[k]]

\* setGameStats(prev => ({ ...prev, ...stats })), of a component not unmounted
handleStatsUpdate(stats) ==
  gameStats' = IF component = "gone" THEN gameStats ELSE mergeStats(gameStats, stats)

\* Math.round(y * 10), of a height in millionths
roundTenths(y) == (y + 50000) \div 100000

update ==
  LET velocity == velocityY - gravityStep
      moved    == cameraY + velocity * frameDelta
      groundY  == PlayerController_getGroundHeight(cameraColumn[1], cameraColumn[2]) * micro
                    + playerHeight
      landed   == moved <= groundY
      y        == IF landed THEN groundY ELSE moved
  IN /\ cameraY' = y
     /\ velocityY' = IF landed THEN 0 ELSE velocity
     /\ canJump' = landed
     /\ handleStatsUpdate([blocksPlaced |-> blocksPlaced, blocksDestroyed |-> blocksDestroyed,
                           position |-> <<10 * cameraColumn[1], roundTenths(y), 10 * cameraColumn[2]>>,
                           playersOnline |-> 1])
     /\ last' = [op |-> "update", moved |-> moved]

\* one frame tick of the controller alone
PlayerController_update ==
  /\ update
  /\ UNCHANGED <<connVars, histVars, sendVars, blocks, scene, blocksPlaced, blocksDestroyed,
                 clicks, received, joined, edited, cameraColumn, gameVars>>

\* keydown of Space, once between two ticks
Jump ==
  /\ canJump
  /\ velocityY = 0
  /\ velocityY' = velocityY + jumpImpulse
  /\ last' = [op |-> "jump"]
  /\ UNCHANGED <<connVars, histVars, sendVars, blocks, scene, blocksPlaced, blocksDestroyed,
                 clicks, received, joined, edited, cameraColumn, cameraY, canJump, gameStats,
                 gameVars>>

\* frames with a movement key held, on the ground: the camera gets over
\* another column
Walk ==
  /\ canJump
  /\ velocityY = 0
  /\ cameraColumn' \in {spawnColumn, windowColumn} \ {cameraColumn}
  /\ last' = [op |-> "walk"]
  /\ UNCHANGED <<connVars, histVars, sendVars, blocks, scene, blocksPlaced, blocksDestroyed,
                 clicks, received, joined, edited, cameraY, velocityY, canJump, gameStats,
                 gameVars>>

\* world.placeBlock / world.removeBlock on a cell of the window's first column
PlaceInColumn ==
  \E y \in Ys :
    LET r == placeBlock(world, toPosition(<<windowColumn[1], y, windowColumn[2]>>), 1) IN
    /\ blocks' = r.blocks
    /\ scene' = r.scene
    /\ last' = [op |-> "placeBlock"]
    /\ UNCHANGED <<connVars, histVars, sendVars, blocksPlaced, blocksDestroyed,
                   clicks, received, joined, edited, playerVars, gameVars>>

RemoveInColumn ==
  \E y \in Ys :
    LET r == removeBlock(world, toPosition(<<windowColumn[1], y, windowColumn[2]>>)) IN
    /\ r.ret
    /\ blocks' = r.blocks
    /\ scene' = r.scene
    /\ last' = [op |-> "removeBlock"]
    /\ UNCHANGED <<connVars, histVars, sendVars, blocksPlaced, blocksDestroyed,
                   clicks, received, joined, edited, playerVars, gameVars>>

(***************************************************************************)
(* onmessage / handleMessage, with Game.handleWorldUpdate as onWorldUpdate.*)
(***************************************************************************)
UpdateTypes == {0, 3}

\* a position in the cell: its corner, or in the second column its centre
positionIn(cell) ==
  IF cell[1] = terrainSize + 1 THEN toPosition(cell)
  ELSE [j \in 1..3 |-> toPosition(cell)[j] + 1]

Positions == {positionIn(c) : c \in Cells}

BlocksIn(cell) == {[position |-> positionIn(cell), type |-> t] : t \in UpdateTypes}

\* the block lists received: one block, or two blocks of one cell
\* the cells the received blocks are in: the bottom and the top of the columns
UpdateCells == {c \in Cells : c[2] < groundScanTop}

\* the block lists received: one block, or two blocks the first of which is in
\* the first column
BlockLists ==
  {<<b>> : b \in UNION {BlocksIn(c) : c \in UpdateCells}}
  \cup {<<a, b>> : a \in UNION {BlocksIn(c) : c \in UpdateCells \cap {<<terrainSize + 1, 0, 0>>}},
                   b \in UNION {BlocksIn(c) : c \in UpdateCells}}

PlayerIds == {"p2"}

\* the block lists of the server's world_state message: one block each
StateLists == {<<b>> : b \in {a \in UNION {BlocksIn(c) : c \in UpdateCells} : a.type # 0}}

Messages ==
  {[type |-> "world_update", worldState |-> [blocks |-> l]] : l \in BlockLists}
  \cup {[type |-> "world_state", data |-> [blocks |-> l]] : l \in StateLists}
  \cup {[type |-> k, playerId |-> id] : k \in {"player_joined", "player_left"}, id \in PlayerIds}
  \cup {[type |-> "player_update", playerId |-> id, position |-> <<2, 4, 6>>,
         rotation |-> <<0, 0, 0>>] : id \in PlayerIds}
  \cup {[type |-> "ping"]}

\* event.data: the text of a message, whole or cut short
Payloads ==
  {[wellFormed |-> TRUE, data |-> m] : m \in Messages}
  \cup {[wellFormed |-> FALSE, data |-> m] :
           m \in {[type |-> "world_update", worldState |-> [blocks |-> l]] : l \in StateLists}}

\* a parser that reads text that was cut short as if it were whole
JSON_parse_lenient(payload) == [ok |-> TRUE, data |-> payload.data]

\* JSON.parse: the value, or a SyntaxError thrown
JSON_parse(payload) ==
  IF payload.wellFormed THEN [ok |-> TRUE, data |-> payload.data]
  ELSE [ok |-> FALSE, data |-> [type |-> "none"]]

\* what a received payload is, whatever is made of it
kindOf(payload) == IF payload.wellFormed THEN payload.data.type ELSE "unparseable"

\* the block list a message carries, by the protocol
blockListOf(data) ==
  CASE data.type = "world_update" -> data.worldState.blocks
    [] data.type = "world_state" -> data.data.blocks
    [] OTHER -> <<>>

\* the stats a message carries
statsOf(data) == IF data.type = "stats_update" THEN data.stats ELSE << >>

\* the players the protocol has announced, after one more message
announced(data) ==
  CASE data.type \in {"player_joined", "player_update"} -> joined \cup {data.playerId}
    [] data.type = "player_left" -> joined \ {data.playerId}
    [] OTHER -> joined

handleMessage(data) ==
  /\ IF data.type = "world_update"
       THEN LET w == updateFromState(world, data.worldState.blocks)
            IN blocks' = w.blocks /\ scene' = w.scene
       ELSE UNCHANGED <<blocks, scene>>
  /\ IF data.type = "stats_update"
       THEN handleStatsUpdate(data.stats)
       ELSE UNCHANGED gameStats
  /\ UNCHANGED <<blocksPlaced, blocksDestroyed>>

onmessage(i, payload) ==
  LET parsed == JSON_parse(payload) IN
  /\ conns[i].st = "open"
  /\ IF parsed.ok
       THEN handleMessage(parsed.data) /\ joined' = announced(parsed.data)
       ELSE UNCHANGED <<blocks, scene, blocksPlaced, blocksDestroyed, joined, gameStats>>
  /\ received' = received + 1
  /\ last' = [op |-> kindOf(payload), blocks |-> blockListOf(payload.data),
              stats |-> statsOf(payload.data), prev |-> last.op]
  /\ UNCHANGED <<connVars, histVars, sendVars, clicks, edited, cameraColumn, cameraY,
                 velocityY, canJump, gameVars>>

Receive ==
  /\ clicks + received < MaxWorldOps
  /\ \E i \in ConnIds, payload \in Payloads : onmessage(i, payload)

\* the state after construction, but for isLoading
InitButLoading ==
  /\ ws = 0
  /\ reconnectAttempts = 0
  /\ conns = <<>>
  /\ retryTimers = <<>>
  /\ isConnected = FALSE
  /\ wire = <<>>
  /\ manualCalls = 0
  /\ autoCalls = 0
  /\ retryLog = <<>>
  /\ notices = {}
  /\ closures = 0
  /\ sendSeq = 0
  /\ dropped = {}
  /\ handed = [type |-> "none"]
  /\ blocks = << >>
  /\ scene = << >>
  /\ blocksPlaced = 0
  /\ blocksDestroyed = 0
  /\ clicks = 0
  /\ received = 0
  /\ joined = {}
  /\ edited = {}
  /\ cameraColumn = spawnColumn
  /\ cameraY = cameraStart * micro
  /\ velocityY = 0
  /\ canJump = FALSE
  /\ gameStats = [blocksPlaced |-> 0, blocksDestroyed |-> 0,
                  position |-> <<0, 10 * cameraStart, 0>>, playersOnline |-> 1]
  /\ last = [op |-> "none", calls |-> 0]
  /\ component = "no"
  /\ selectedBlockType = 1
  /\ effect = "none"
  /\ thenOf = 0
  /\ animationId = "undefined"
  /\ loops = 0
  /\ frames = 0
  /\ cleaned = FALSE

\* useState(true)
Init == InitButLoading /\ isLoading = TRUE

Connect == ConnectCall(MaxConns)

Retry == \E k \in 1..Len(retryTimers) : RetryFire(k, MaxConns)

NextConn ==
  \/ Connect
  \/ \E i \in ConnIds : TransportOpen(i)
  \/ \E i \in ConnIds : TransportFail(i)
  \/ \E i \in ConnIds : TransportClose(i)
  \/ \E i \in ConnIds : ConnectTimeout(i)
  \/ Retry
  \/ disconnect

SpecConn == Init /\ [][NextConn]_vars

(***************************************************************************)
(* The manager when every connection attempt fails: no transport opens.    *)
(***************************************************************************)
ConnectFailing == ConnectCall(MaxFailConns)

RetryFailing == \E k \in 1..Len(retryTimers) : RetryFire(k, MaxFailConns)

NextFail ==
  \/ ConnectFailing
  \/ \E i \in ConnIds : TransportFail(i)
  \/ \E i \in ConnIds : ConnectTimeout(i)
  \/ RetryFailing
  \/ disconnect

SpecFail == Init /\ [][NextFail]_vars

(***************************************************************************)
(* The world and the controller, over one connection, which may be lost.   *)
(***************************************************************************)
\* the game calls connect() once, when it is mounted
ConnectWorld == manualCalls = 0 /\ ConnectCall(MaxConns)

NextWorld ==
  \/ ConnectWorld
  \/ \E i \in ConnIds : TransportOpen(i)
  \/ \E i \in ConnIds : TransportClose(i)
  \/ Receive
  \/ ClickPlace
  \/ ClickDestroy

SpecWorld == Init /\ [][NextWorld]_vars

(***************************************************************************)
(* The store's public methods, called directly.                            *)
(***************************************************************************)
StoreTypes == {0, 1, 3}

\* a position below the bottom of the world (y = -1)
OutPositions == {<<2 * (terrainSize + 1), 0 - 2, 0>>}

\* the positions the store's methods are called with
StorePositions == Positions \cup OutPositions

CallPlaceBlock ==
  /\ last.calls < MaxStoreCalls
  /\ \E position \in StorePositions, blockType \in StoreTypes :
       LET r == placeBlock(world, position, blockType) IN
       /\ blocks' = r.blocks
       /\ scene' = r.scene
       /\ last' = [op |-> "placeBlock", position |-> position, blockType |-> blockType,
                   ret |-> r.ret, calls |-> last.calls + 1]
  /\ UNCHANGED <<connVars, histVars, sendVars, blocksPlaced, blocksDestroyed,
                 clicks, received, joined, edited, playerVars, gameVars>>

CallRemoveBlock ==
  /\ last.calls < MaxStoreCalls
  /\ \E position \in StorePositions :
       LET r == removeBlock(world, position) IN
       /\ blocks' = r.blocks
       /\ scene' = r.scene
       /\ last' = [op |-> "removeBlock", position |-> position, blockType |-> 0,
                   ret |-> r.ret, calls |-> last.calls + 1]
  /\ UNCHANGED <<connVars, histVars, sendVars, blocksPlaced, blocksDestroyed,
                 clicks, received, joined, edited, playerVars, gameVars>>

NextStore == CallPlaceBlock \/ CallRemoveBlock

SpecStore == Init /\ [][NextStore]_vars

(***************************************************************************)
(* The manager and its send methods, over a connection that may be lost    *)
(* and retried.                                                            *)
(***************************************************************************)
ConnectSend == ConnectCall(MaxSendConns)

RetrySend == \E k \in 1..Len(retryTimers) : RetryFire(k, MaxSendConns)

NextSend ==
  \/ ConnectSend
  \/ \E i \in ConnIds : TransportOpen(i)
  \/ \E i \in ConnIds : TransportFail(i)
  \/ \E i \in ConnIds : TransportClose(i)
  \/ RetrySend
  \/ disconnect
  \/ SendBlockUpdate
  \/ SendPlayerUpdate

SpecSend == Init /\ [][NextSend]_vars

(***************************************************************************)
(* The manager over an unstable network: transports open or fail, and open *)
(* ones are lost; the caller only calls connect().                         *)
(***************************************************************************)
ConnectUnstable == ConnectCall(MaxUnstableConns)

RetryUnstable == \E k \in 1..Len(retryTimers) : RetryFire(k, MaxUnstableConns)

NextUnstable ==
  \/ ConnectUnstable
  \/ \E i \in ConnIds : TransportOpen(i)
  \/ \E i \in ConnIds : TransportFail(i)
  \/ \E i \in ConnIds : TransportClose(i)
  \/ RetryUnstable

SpecUnstable == Init /\ [][NextUnstable]_vars

(***************************************************************************)
(* The frame loop: ticks, jumps, walking, and blocks put in and taken out  *)
(* of a column.                                                            *)
(***************************************************************************)
NextFrame ==
  \/ PlayerController_update
  \/ Jump
  \/ Walk
  \/ PlaceInColumn
  \/ RemoveInColumn

SpecFrame == Init /\ [][NextFrame]_vars

(***************************************************************************)
(* Game: the component's effect and its cleanup, the then/catch of         *)
(* connect() and the frame loop.  The component renders the container div  *)
(* that carries mountRef only when isLoading is false, so mountRef.current *)
(* is null whenever the loading screen is what was rendered last.  The     *)
(* component as written starts with isLoading true; the runs that start    *)
(* with isLoading false are those in which the effect finds its mount      *)
(* point, and its body, its cleanup and the frame loop are exercised.      *)
(* The model follows one manager, one world and one controller: when the   *)
(* body of the effect runs again, the objects of the run before are left,  *)
(* and the transports of the manager it disconnected count as closed.      *)
(***************************************************************************)
\* transports created in the runs of the game
MaxGameConns == 2
\* frame ticks, after which the browser runs no frame callback
MaxFrames == 2
\* messages received and clicks made, together, in the runs of the game
MaxGameOps == 2

\* two of the keys 1 .. INVENTORY_BLOCKS.length
SelectKeys == {1, 2}

\* mountRef.current after the last render
mountRef == IF isLoading THEN "null" ELSE "div"

\* the then/catch of the effect's connect() is due: a promise reaction job,
\* run before any other event is handled
reactionDue == thenOf # 0 /\ conns[thenOf].outcome # "pending"

\* disconnect(), as the transports and the reference it leaves
disconnected ==
  IF ws # 0
    THEN [conns |-> [conns EXCEPT ![ws].st =
                       IF @ \in {"connecting", "open"} THEN "closing" ELSE @],
          ws    |-> 0]
    ELSE [conns |-> conns, ws |-> ws]

\* the cleanup of the effect: cancelAnimationFrame of the id in the ref, the
\* listeners removed, disconnect()
cleanup ==
  /\ loops' = IF animationId = "pending" THEN loops - 1 ELSE loops
  /\ animationId' = IF animationId = "undefined" THEN "undefined" ELSE "stale"

\* the body of the effect past its guard: a new World, a new manager, a new
\* controller with a new camera, and connect() with its then/catch; cs are
\* the transports as the cleanup, if there was one, left them
effectBody(cs) ==
  /\ Len(cs) < MaxGameConns
  /\ isLoading' = TRUE
  /\ blocks' = << >>
  /\ scene' = << >>
  /\ edited' = {}
  /\ reconnectAttempts' = 0
  /\ retryTimers' = << >>
  /\ conns' = Append([i \in 1..Len(cs) |-> [cs[i] EXCEPT !.st = "closed"]],
                     [st |-> "connecting", opened |-> FALSE,
                      outcome |-> "pending", timer |-> "armed"])
  /\ ws' = Len(cs) + 1
  /\ thenOf' = Len(cs) + 1
  /\ manualCalls' = manualCalls + 1
  /\ blocksPlaced' = 0
  /\ blocksDestroyed' = 0
  /\ cameraColumn' = spawnColumn
  /\ cameraY' = cameraStart * micro
  /\ velocityY' = 0
  /\ canJump' = FALSE
  /\ effect' = "live"
  /\ cleaned' = FALSE

\* what the effect leaves alone when it returns at its guard
effectReturns ==
  UNCHANGED <<isLoading, blocks, scene, edited, reconnectAttempts, retryTimers, thenOf,
              manualCalls, blocksPlaced, blocksDestroyed, cameraColumn, cameraY, velocityY,
              canJump>>

\* React mounts the component: the first render, then the effect
Mount ==
  /\ component = "no"
  /\ component' = "yes"
  /\ IF mountRef = "null"
       THEN effectReturns /\ UNCHANGED <<conns, ws, effect, cleaned>>
       ELSE effectBody(conns)
  /\ UNCHANGED <<isConnected, autoCalls, retryLog, notices, closures, sendVars, clicks,
                 received, joined, last, gameStats, selectedBlockType, animationId, loops,
                 frames>>

\* React unmounts the component: the cleanup of the effect, if its body ran
Unmount ==
  /\ component = "yes"
  /\ component' = "gone"
  /\ IF effect = "live"
       THEN /\ cleanup
            /\ conns' = disconnected.conns
            /\ ws' = disconnected.ws
            /\ effect' = "none"
            /\ cleaned' = TRUE
       ELSE UNCHANGED <<loops, animationId, conns, ws, effect, cleaned>>
  /\ effectReturns
  /\ UNCHANGED <<isConnected, autoCalls, retryLog, notices, closures, sendVars, clicks,
                 received, joined, last, gameStats, selectedBlockType, frames>>

\* handleKeyDown with a digit key that changes the selection: the component
\* renders again and, selectedBlockType being a dependency of the effect, the
\* cleanup runs and then the effect
SelectBlock(key) ==
  /\ effect = "live"
  /\ key # selectedBlockType
  /\ selectedBlockType' = key
  /\ cleanup
  /\ IF mountRef = "null"
       THEN /\ effectReturns
            /\ conns' = disconnected.conns
            /\ ws' = disconnected.ws
            /\ effect' = "none"
            /\ cleaned' = TRUE
       ELSE effectBody(disconnected.conns)
  /\ UNCHANGED <<isConnected, autoCalls, retryLog, notices, closures, sendVars, clicks,
                 received, joined, last, gameStats, component, frames>>

\* animate(): request the next frame, then the controller's tick
animate ==
  /\ animationId' = "pending"
  /\ update
  /\ frames' = frames + 1
  /\ UNCHANGED <<connVars, histVars, sendVars, blocks, scene, blocksPlaced, blocksDestroyed,
                 clicks, received, joined, edited, cameraColumn, component,
                 selectedBlockType, effect, cleaned>>

\* the then and the catch of the effect's connect(): setIsLoading(false) and
\* animate(), which starts a frame loop
StartLoop ==
  /\ reactionDue
  /\ thenOf' = 0
  /\ isLoading' = IF component = "gone" THEN isLoading ELSE FALSE
  /\ loops' = loops + 1
  /\ animate

\* the browser runs a frame callback
Frame ==
  /\ loops > 0
  /\ frames < MaxFrames
  /\ UNCHANGED <<loops, thenOf, isLoading>>
  /\ animate

\* the stats of the server's stats_update messages
StatsUpdates == {[playersOnline |-> 5], [blocksPlaced |-> 7]}

\* the payloads received in the runs of the game
GamePayloads ==
  {[wellFormed |-> TRUE, data |-> [type |-> "stats_update", stats |-> st]] : st \in StatsUpdates}
  \cup {[wellFormed |-> TRUE,
         data |-> [type |-> "world_update",
                   worldState |-> [blocks |-> <<[position |-> positionIn(c), type |-> 3]>>]]] :
           c \in {<<terrainSize + 1, groundScanTop - 1, 0>>}}

GameReceive ==
  /\ clicks + received < MaxGameOps
  /\ \E i \in ConnIds, payload \in GamePayloads : onmessage(i, payload)

\* the rays of the clicks in the runs of the game: down the first column
GameRays == {ray \in Rays : ray.origin[1] = 2 * (terrainSize + 1) + 1 /\ ray.sign = 0 - 1}

\* handleClick: button 2 places the selected type, button 0 destroys
handleClick ==
  /\ effect = "live"
  /\ clicks + received < MaxGameOps
  /\ \E ray \in GameRays :
       \/ PlayerController_placeBlock(ray, selectedBlockType)
       \/ PlayerController_destroyBlock(ray)

NextGame ==
  \/ StartLoop
  \/ ~reactionDue /\ Mount
  \/ ~reactionDue /\ Unmount
  \/ ~reactionDue /\ \E key \in SelectKeys : SelectBlock(key)
  \/ ~reactionDue /\ Frame
  \/ ~reactionDue /\ GameReceive
  \/ ~reactionDue /\ handleClick
  \/ ~reactionDue /\ \E i \in ConnIds : TransportOpen(i)
  \/ ~reactionDue /\ \E i \in ConnIds : TransportFail(i)
  \/ ~reactionDue /\ \E i \in ConnIds : TransportClose(i)
  \/ ~reactionDue /\ \E i \in ConnIds : ConnectTimeout(i)
  \/ ~reactionDue /\ \E k \in 1..Len(retryTimers) : RetryFire(k, MaxGameConns)

\* the 5-second timer of call i, as a step of the game
TimerOfCall(i) == i \in ConnIds /\ ~reactionDue /\ ConnectTimeout(i)

\* a reaction job that is due is run, and a timer that is armed fires
FairGame ==
  /\ WF_vars(StartLoop)
  /\ \A i \in 1..MaxGameConns : WF_vars(TimerOfCall(i))

\* the game with its mount point rendered or not at the start
InitGame == InitButLoading /\ isLoading \in BOOLEAN

SpecGame == InitGame /\ [][NextGame]_vars /\ FairGame

(***************************************************************************)
(* Properties.                                                             *)
(***************************************************************************)
nonDecreasing(seq) == \A i \in 1..(Len(seq) - 1) : seq[i] <= seq[i + 1]

allClosed == \A i \in ConnIds : conns[i].st = "closed"

\* C1: when every connection attempt fails, at most 5 retries are scheduled,
\* their delays never decrease, at most 5 automatic attempts are made, and once
\* the fifth has failed no retry is pending: the manager has stopped, with the
\* budget used up and the caller told it is offline.
C1_RetriesStopAfterFiveFailures ==
  /\ Len(retryLog) <= maxReconnectAttempts
  /\ nonDecreasing(retryLog)
  /\ autoCalls <= maxReconnectAttempts
  /\ (autoCalls = maxReconnectAttempts /\ allClosed) =>
       /\ retryTimers = <<>>
       /\ reconnectAttempts = maxReconnectAttempts
       /\ isConnected = FALSE

\* the five retries have failed, and so has a connect() the caller made again
C1_Witness ==
  /\ autoCalls = maxReconnectAttempts
  /\ manualCalls = 2
  /\ Len(conns) = autoCalls + manualCalls
  /\ allClosed
  /\ retryLog = [k \in 1..maxReconnectAttempts |-> k * reconnectDelay]

\* C2: every connect() call is settled once its 5-second timer has fired, it is
\* resolved only if its transport opened, and it is rejected if its transport
\* failed before opening.
C2_EveryConnectSettles ==
  \A i \in ConnIds :
    /\ conns[i].timer = "fired" => conns[i].outcome # "pending"
    /\ conns[i].outcome = "resolved" => conns[i].opened
    /\ (conns[i].st = "closed" /\ ~conns[i].opened) => conns[i].outcome = "rejected"

\* what a send call made while the transport is not open leaves alone
sendDropsQuietly ==
  (sendSeq' = sendSeq + 1 /\ ~wsIsOpen) =>
     /\ wire' = wire
     /\ UNCHANGED <<connVars, histVars>>

\* C3: a send made while the transport is not open transmits nothing and
\* changes nothing of the manager, and its message is never on the wire later:
\* the wire holds the messages of the other send calls, once each, in order.
C3_DroppedNeverTransmitted ==
  /\ [](/\ \A k \in 1..Len(wire) : wire[k].seq \notin dropped
        /\ \A k \in 1..(Len(wire) - 1) : wire[k].seq < wire[k + 1].seq
        /\ Len(wire) + Cardinality(dropped) = sendSeq)
  /\ [][sendDropsQuietly]_vars

\* a message was dropped, the connection was lost and retried, and a later
\* message went out on the new transport
C3_Witness ==
  /\ dropped # {}
  /\ autoCalls >= 1
  /\ \E k \in 1..Len(wire) : wire[k].conn >= 2 /\ \A d \in dropped : d < wire[k].seq

\* C4: in every store the calls can reach, placing a non-air type at a position
\* makes its cell occupied, and removing it next makes the cell empty.
C4_PlaceThenRemove ==
  \A position \in Positions, blockType \in StoreTypes \ {0} :
    LET placed  == placeBlock(world, position, blockType)
        removed == removeBlock(placed, position)
    IN /\ getBlockAt(placed, position) # 0
       /\ getBlockAt(placed, toPosition(positionToKey(position))) # 0
       /\ getBlockAt(removed, position) = 0
       /\ getBlockAt(removed, toPosition(positionToKey(position))) = 0

\* a removeBlock call has just removed a block that a placeBlock call had put
C4_Witness ==
  /\ last.op = "removeBlock"
  /\ last.ret
  /\ last.calls >= 2
  /\ getBlockAt(world, last.position) = 0

\* C5: placing air is removing: same store, same scene, same result; and a
\* second call of either leaves the store as the first left it.
C5_PlaceAirIsRemove ==
  \A position \in Positions :
    LET placed  == placeBlock(world, position, 0)
        removed == removeBlock(world, position)
    IN /\ placed = removed
       /\ placeBlock(placed, position, 0).blocks = placed.blocks
       /\ removeBlock(removed, position).blocks = removed.blocks

\* placeBlock with type 0 has just removed a block
C5_Witness ==
  /\ last.op = "placeBlock"
  /\ last.blockType = 0
  /\ last.ret
  /\ positionToKey(last.position) \notin DOMAIN blocks

\* the block of a received list that is the last one for its cell
isFinal(blockList, i) ==
  \A j \in (i + 1)..Len(blockList) :
    positionToKey(blockList[j].position) # positionToKey(blockList[i].position)

\* C6: after a world_update has been applied, every non-air block {p, t} it
\* carried (the last one for its cell) is reported at p with the type t, by
\* getBlockAt and by the block list of getWorldState.
C6_UpdateKeepsReceivedType ==
  last.op = "world_update" =>
    \A i \in 1..Len(last.blocks) :
      (last.blocks[i].type # 0 /\ isFinal(last.blocks, i)) =>
         /\ getBlockAt(world, last.blocks[i].position) = last.blocks[i].type
         /\ [position |-> toPosition(positionToKey(last.blocks[i].position)),
             type     |-> last.blocks[i].type] \in getWorldState(world).blocks

\* C7: the players the client holds are the players that joined (or were seen
\* in a player_update) and have not left.
C7_PlayerEntriesFollowJoins == getWorldState(world).players = joined

\* C8: after destroyBlock hit an occupied cell h with the transport open, h is
\* empty, blocksDestroyed is one more, and one message more is on the wire: a
\* block_update with position h and the field block_type equal to 0.
C8_DestroySendsBlockType ==
  (last.op = "destroyBlock" /\ last.hitOccupied /\ last.open) =>
    /\ getBlockAt(world, toPosition(last.hit.position)) = 0
    /\ blocksDestroyed = last.destroyedBefore + 1
    /\ Len(wire) = last.wireBefore + 1
    /\ LET m == wire[Len(wire)].msg
       IN /\ m.type = "block_update"
          /\ m.position = toPosition(last.hit.position)
          /\ "block_type" \in DOMAIN m
          /\ m.block_type = 0

\* the greatest occupied y of the column with 0 <= y <= top, 0 if there is none
greatestOccupied(w, x, z, top) ==
  LET ys == {k[2] : k \in {c \in DOMAIN w.blocks : c[1] = x /\ c[3] = z /\ c[2] >= 0 /\ c[2] <= top}}
  IN IF ys = {} THEN 0 ELSE CHOOSE y \in ys : \A other \in ys : other <= y

\* C9: the ground height of a column is its greatest occupied y up to top, for
\* top 20 and for top 25.
C9_GroundHeightIsGreatestOccupied ==
  \A x \in Xs, top \in {groundScanTop, groundScanTop + 5} :
    getGroundHeight(world, x, 0) = greatestOccupied(world, x, 0, top)

\* the cell's front face is ahead of the ray's origin
ahead(key, ray) == ray.sign * (frontFace(key, ray) - ray.origin[ray.axis]) >= 0

\* the ray runs through the inside of the cell's cross-section
crosses(key, ray) ==
  \A j \in 1..3 \ {ray.axis} :
    2 * key[j] < ray.origin[j] /\ ray.origin[j] < 2 * key[j] + 2

\* the ray meets the closed cube of the cell
touches(key, ray) ==
  /\ \A j \in 1..3 \ {ray.axis} :
       2 * key[j] <= ray.origin[j] /\ ray.origin[j] <= 2 * key[j] + 2
  /\ IF ray.sign = 1 THEN ray.origin[ray.axis] <= 2 * key[ray.axis] + 2
                     ELSE 2 * key[ray.axis] <= ray.origin[ray.axis]

\* C10: raycast returns nothing when no occupied cell meets the ray; what it
\* returns is an occupied cell with the normal of the face the ray enters by;
\* and when the ray enters occupied cells ahead of its origin, it returns one
\* that is not farther than any of them.
C10_RaycastReturnsNearestOccupied ==
  \A ray \in Rays :
    LET hit     == raycast(world, ray)
        entered == {k \in DOMAIN blocks : crosses(k, ray) /\ ahead(k, ray)}
    IN /\ (\A k \in DOMAIN blocks : ~touches(k, ray)) => ~hit.found
       /\ hit.found => (hit.position \in DOMAIN blocks /\ hit.normal = faceNormal(ray))
       /\ entered # {} =>
            /\ hit.found
            /\ \A k \in entered :
                 ray.sign * (frontFace(hit.position, ray) - ray.origin[ray.axis])
                   <= ray.sign * (frontFace(k, ray) - ray.origin[ray.axis])

\* the payloads that are malformed: unparseable text, or a kind nobody knows
droppedKinds == {"unparseable", "ping"}

receivesDropped == received' = received + 1 /\ last'.op \in droppedKinds

receivesAfterDropped ==
  received' = received + 1 /\ last.op \in droppedKinds /\ last'.op = "world_update"

\* C11: receiving an unparseable payload or a message of an unknown kind
\* changes nothing of the store, the players, the counters, the transports,
\* the retries or the wire; and a world_update received right after one is
\* applied as ever.
C11_MalformedIsDropped ==
  /\ [][receivesDropped =>
          UNCHANGED <<blocks, scene, blocksPlaced, blocksDestroyed, joined,
                      connVars, histVars, sendVars>>]_vars
  /\ [][receivesAfterDropped => world' = updateFromState(world, last'.blocks)]_vars

\* a world_update was applied right after an unparseable payload was dropped
C11_Witness ==
  /\ last.op = "world_update"
  /\ last.prev = "unparseable"
  /\ wsIsOpen
  /\ \E i \in 1..Len(last.blocks) : positionToKey(last.blocks[i].position) \in DOMAIN blocks

\* C12: a placeBlock or removeBlock call at a position outside the world
\* reports no change and leaves no entry for that position in the store; and
\* applying a received block at such a position leaves the store as it was.
C12_OutOfBoundsIsNoOp ==
  /\ last.op \in {"placeBlock", "removeBlock"} /\ last.position \in OutPositions =>
       ~last.ret /\ positionToKey(last.position) \notin DOMAIN blocks
  /\ \A position \in OutPositions, blockType \in StoreTypes :
       updateFromState(world, <<[position |-> position, type |-> blockType]>>) = world

\* C13: what the caller is told on a closure tells it whether the manager
\* has given up: a notification made when no retry was scheduled differs from
\* every notification made when one was.
C13_TerminalFailureIsReported ==
  \A a \in notices, b \in notices :
    a.terminal # b.terminal => a.connected # b.connected

noAirEntry(m) == \A k \in DOMAIN m : m[k] # 0

\* C14: in every store that the received block lists (air included) and the
\* controller's placeBlock and removeBlock calls lead to, no entry is one for
\* air; and placeBlock with type 0 makes none: at an empty coordinate it
\* leaves the store as it is.
C14_NoAirEntryEver ==
  /\ noAirEntry(blocks)
  /\ \A position \in StorePositions :
       LET r == placeBlock(world, position, 0) IN
       /\ noAirEntry(r.blocks)
       /\ positionToKey(position) \notin DOMAIN blocks => r.blocks = blocks

\* a world_update with an air block for an empty cell was applied to a store
\* that holds blocks, and the cell has no entry
C14_Witness ==
  /\ last.op = "world_update"
  /\ blocks # << >>
  /\ last.prev = "world_update"
  /\ \E i \in 1..Len(last.blocks) :
       /\ last.blocks[i].type = 0
       /\ positionToKey(last.blocks[i].position) \notin DOMAIN blocks

\* the mutations of the world operation that `last` records, in the order
\* they are applied: the blocks of a world_update, or the edit of a click
mutationsOf(l) ==
  CASE l.op = "world_update" ->
         [i \in 1..Len(l.blocks) |->
            [key |-> positionToKey(l.blocks[i].position), type |-> l.blocks[i].type]]
    [] l.op = "placeBlock" /\ l.hit.found ->
         <<[key |-> [j \in 1..3 |-> l.hit.position[j] + l.hit.normal[j]], type |-> l.blockType]>>
    [] l.op = "destroyBlock" /\ l.hit.found -> <<[key |-> l.hit.position, type |-> 0]>>
    [] OTHER -> << >>

\* the type stored for a cell, 0 (air) when there is none
cellState(m, key) == IF key \in DOMAIN m THEN m[key] ELSE 0

\* the state of a cell after the mutations: what the last one for it says
lastWrite(m, mutations, key) ==
  LET on == {i \in 1..Len(mutations) : mutations[i].key = key}
  IN IF on = {} THEN cellState(m, key)
     ELSE mutations[CHOOSE i \in on : \A j \in on : j <= i].type

worldOperation == clicks' # clicks \/ received' # received

\* C15: every world operation (a received message or a click) leaves each
\* cell in the state the last of its mutations for that cell gives it, and
\* every cell it has no mutation for as it was.
C15_LastWriteWins ==
  [][worldOperation =>
       \A key \in Cells \cup DOMAIN blocks \cup DOMAIN blocks' :
         cellState(blocks', key) = lastWrite(blocks, mutationsOf(last'), key)]_vars

\* a world_update with a block and then air for one cell was applied: the cell
\* is empty, and a block received before, in another cell, is still there
C15_Witness ==
  /\ last.op = "world_update"
  /\ Len(last.blocks) = 2
  /\ last.blocks[1].type # 0
  /\ last.blocks[2].type = 0
  /\ positionToKey(last.blocks[1].position) = positionToKey(last.blocks[2].position)
  /\ positionToKey(last.blocks[2].position) \notin DOMAIN blocks
  /\ blocks # << >>

\* the store reflects the block list: each cell of the list is in the state
\* the last block of the list for it gives
reflects(m, blockList) ==
  \A i \in 1..Len(blockList) :
    isFinal(blockList, i) =>
      (positionToKey(blockList[i].position) \in DOMAIN m) = (blockList[i].type # 0)

\* C16: after a world_state or a world_update message has been received, the
\* store reflects every block of its list.
C16_FullStateMessageIsApplied ==
  last.op \in {"world_state", "world_update"} => reflects(blocks, last.blocks)

\* a transport closes
closes == closures' = closures + 1

\* C17: the k-th closure since a transport last opened schedules one retry
\* with the delay k times the base delay, for k up to 5, and none beyond; the
\* manager's count is the number of closures since the last open (5 at most),
\* so an open makes the next closure the first again.
C17_RetryDelayFollowsClosures ==
  /\ [](reconnectAttempts =
          IF closures < maxReconnectAttempts THEN closures ELSE maxReconnectAttempts)
  /\ [][closes =>
          IF closures' <= maxReconnectAttempts
            THEN /\ retryLog' = Append(retryLog, reconnectDelay * closures')
                 /\ retryTimers' = Append(retryTimers, reconnectDelay * closures')
            ELSE retryLog' = retryLog /\ retryTimers' = retryTimers]_vars

\* five closures in a row were retried with growing delays, the fifth retry
\* opened, and the loss of that transport was retried after the base delay
C17_Witness ==
  /\ Len(retryLog) = maxReconnectAttempts + 1
  /\ \A k \in 1..maxReconnectAttempts : retryLog[k] = k * reconnectDelay
  /\ retryLog[maxReconnectAttempts + 1] = reconnectDelay
  /\ closures = 1

\* transport i, which disconnect() told to close, closes
closesAfterDisconnect(i) == conns[i].st = "closing" /\ conns'[i].st = "closed"

\* C18: the closure of a transport that the caller's disconnect() closed
\* schedules no retry (so that nothing is opened after it until connect() is
\* called).
C18_DisconnectSchedulesNoRetry ==
  [][\A i \in ConnIds :
       closesAfterDisconnect(i) => retryTimers' = retryTimers /\ retryLog' = retryLog]_vars

\* what a block list makes of a cell it is applied to as the whole world:
\* the type of its last block for the cell, air when it has none
listState(blockList, key) == lastWrite(<< >>, mutationsOf([op |-> "world_update", blocks |-> blockList]), key)

\* C19: after a world_update has been applied, every cell the local player
\* placed or destroyed is in the state the update's list gives it, air when
\* the list has no block for it, and has one mesh at most.
C19_UpdateOverwritesLocalEdits ==
  last.op = "world_update" =>
    \A key \in edited :
      /\ (key \in DOMAIN blocks) = (listState(last.blocks, key) # 0)
      /\ meshCount(scene, key) <= 1

\* the threshold the world gives: the ground height of the column under the
\* camera, and the player's height on it
worldThreshold ==
  getGroundHeight(world, cameraColumn[1], cameraColumn[2]) * micro + playerHeight

\* C20: after a frame tick with the camera over the window's column, a player
\* whose new height was at or below the world's threshold stands on it, with
\* vertical velocity 0 and grounded, and any other player is where the tick
\* moved it and airborne.
C20_CollisionFollowsWorldGround ==
  (last.op = "update" /\ cameraColumn = windowColumn) =>
    IF last.moved <= worldThreshold
      THEN cameraY = worldThreshold /\ velocityY = 0 /\ canJump
      ELSE cameraY = last.moved /\ ~canJump

\* the controller's placeBlock is called and its ray hits a cell
placesOnHit == clicks' = clicks + 1 /\ last'.op = "placeBlock" /\ last'.hit.found

\* C21: a placeBlock call of the controller whose ray hits cell h by the face
\* of normal n leaves, at once and whatever the state of the connection, the
\* cell h + n occupied and blocksPlaced one greater, and makes one send call,
\* with a block_update for h + n of the type given.
C21_PlaceIsAppliedAtOnce ==
  [][placesOnHit =>
       LET target == [j \in 1..3 |-> last'.hit.position[j] + last'.hit.normal[j]] IN
       /\ getBlockAt(world', toPosition(target)) # 0
       /\ blocksPlaced' = blocksPlaced + 1
       /\ sendSeq' = sendSeq + 1
       /\ handed' = blockUpdateMessage(toPosition(target), last'.blockType)]_vars

\* a block was placed on a hit while the connection was lost: the cell next
\* to the one hit is occupied and its block_update went to the manager
C21_Witness ==
  /\ last.op = "placeBlock"
  /\ last.hit.found
  /\ ~last.open
  /\ allClosed
  /\ blocksPlaced = last.placedBefore + 1
  /\ handed = blockUpdateMessage(placePositionOf(last.hit), last.blockType)
  /\ positionToKey(placePositionOf(last.hit)) \in DOMAIN blocks
  /\ sendSeq \in dropped

\* the controller's placeBlock or destroyBlock is called and its ray meets no
\* block
clicksAndMisses == clicks' = clicks + 1 /\ last'.missed

\* C22: a placeBlock or destroyBlock call of the controller whose ray hits
\* nothing changes neither the store, nor the scene, nor the two counters,
\* nor the connection and its retries, and makes no send call.
C22_RayMissIsNoOp ==
  [][clicksAndMisses =>
       UNCHANGED <<blocks, scene, blocksPlaced, blocksDestroyed, edited,
                   connVars, histVars, sendVars>>]_vars

\* with blocks in the store and the transport open, a destroyBlock call
\* missed: the counter and the wire are as they were before the call
C22_Witness ==
  /\ last.op = "destroyBlock"
  /\ last.missed
  /\ ~last.hit.found
  /\ blocks # << >>
  /\ last.open
  /\ blocksDestroyed = last.destroyedBefore
  /\ Len(wire) = last.wireBefore

\* one of the store's methods is called
storeCall == last'.calls = last.calls + 1

\* the call left every cell but the one addressed as it was, in the map and
\* in the scene
onlyCellAddressed(key) ==
  /\ \A k \in (DOMAIN blocks \cup DOMAIN blocks') \ {key} :
       cellState(blocks', k) = cellState(blocks, k)
  /\ \A k \in (DOMAIN scene \cup DOMAIN scene') \ {key} :
       meshCount(scene', k) = meshCount(scene, k)

\* C23: removeBlock returns true exactly when the coordinate had an entry;
\* placeBlock with a non-air type returns false when the coordinate already
\* holds that type and true otherwise; and neither changes a cell other than
\* the one addressed.
C23_ReturnTellsWhetherChanged ==
  [][storeCall =>
       LET key == positionToKey(last'.position) IN
       /\ last'.op = "removeBlock" => (last'.ret <=> key \in DOMAIN blocks)
       /\ (last'.op = "placeBlock" /\ last'.blockType # 0) =>
            (last'.ret <=> cellState(blocks, key) # last'.blockType)
       /\ onlyCellAddressed(key)]_vars

\* the transports that are connecting or open
liveTransports == {i \in ConnIds : conns[i].st \in {"connecting", "open"}}

\* the transports whose handlers may still be called: onmessage while open,
\* onclose (and with it attemptReconnect) until closed
withHandlers == {i \in ConnIds : conns[i].st # "closed"}

\* C27: at any time at most one transport of the manager is connecting or
\* open and at most one retry timer is pending, and a transport that the
\* manager does not reference has no handler left to call: it is closed.
C27_OneTransportOneTimer ==
  /\ Cardinality(liveTransports) <= 1
  /\ Len(retryTimers) <= 1
  /\ withHandlers \subseteq {ws}

\* connect() of call i was rejected by its 5-second timer: the timer has
\* fired and the transport had neither opened nor failed
failedByTimeout(i) ==
  /\ conns[i].outcome = "rejected"
  /\ conns[i].timer = "fired"
  /\ conns[i].st = "connecting"

\* C28: the transport of a connect() call that was rejected by its timeout
\* does not open afterwards: the caller is not told connected=true by it and
\* the retry count is not reset by it.
C28_TimedOutAttemptIsOver ==
  [][\A i \in ConnIds :
       (failedByTimeout(i) /\ conns'[i] # conns[i]) =>
         /\ conns'[i].st # "open"
         /\ isConnected' => isConnected
         /\ reconnectAttempts' >= reconnectAttempts]_vars

C25_LoadingEnds ==
  (component = "yes" /\ isLoading) ~> (component = "gone" \/ (~isLoading /\ loops > 0))

ticks == component = "yes" /\ frames' = frames + 1

\* a stats_update is received by the mounted game
receivesStats == component = "yes" /\ received' = received + 1 /\ last'.op = "stats_update"

=============================================================================
